---------------------------- MODULE Spec2Model ----------------------------
(***************************************************************************)
(* Model of sdc11073/mdib/providerwaveform.py: RtSampleArray (a batch of   *)
(* waveform samples with annotations), Annotator (rising-edge detector),   *)
(* _SampleArrayGenerator (the per-channel sampler) and                     *)
(* DefaultWaveformSource (the orchestrator that fills the mdib).           *)
(*                                                                         *)
(* Time is counted in integer ticks.  Sample periods are whole numbers of  *)
(* ticks, so every float expression of the source is an exact rational     *)
(* here; "0.5 * sample_period" is handled by comparing doubled values.     *)
(* Python's None is the empty sequence and a present value x is <<x>>.     *)
(***************************************************************************)
EXTENDS Integers, Sequences, FiniteSets, TLC

VARIABLES
    now,                    \* the reading time.time() returns
    rsa,                    \* SpecBatch: the RtSampleArray under test
    sag,                    \* SpecSampler: the _SampleArrayGenerator under test
    polls,                  \* SpecSampler: history of the get_next_sample_array calls on sag
    detector,               \* SpecAnnotator: the Annotator under test with what it was shown
    waveform_generators,    \* DefaultWaveformSource._waveform_generators
    annotators,             \* DefaultWaveformSource._annotators
    mdib_descriptors,       \* the mdib's descriptor containers, by handle
    mdib_states,            \* the mdib's RealTimeSampleArrayMetricState containers, by handle
    registered,             \* the annotators register_annotation_generator was called with
    cycle,                  \* number of update_all_realtime_samples calls made
    switched,               \* number of set_activation_state calls made
    call                    \* the last call made with what it observed; in Spec only
                            \* update_all_realtime_samples is recorded, until another
                            \* call follows

source == <<waveform_generators, annotators, mdib_descriptors, mdib_states, registered,
           cycle, switched>>
vars == <<now, rsa, sag, polls, detector, source, call>>

None == <<>>
Some(x) == <<x>>

\* pm_types.ComponentActivation
ON == "On"
ComponentActivation == {"On", "Off", "StndBy"}

-----------------------------------------------------------------------------
(* Bounds *)
MaxSamples == 1       \* longest sample list of a batch under test
MaxEntries == 2       \* most apply_annotations entries of a batch under test
MaxTime == 7          \* last clock reading of a run of SpecSampler
MaxRunTime == 3       \* last clock reading of a run of Spec
MaxStep == 3          \* largest advance of the clock between two calls
MaxCycles == 2        \* update_all_realtime_samples calls in one run
MaxSwitches == 2      \* set_activation_state calls in one run
MaxShown == 4         \* most samples shown to an annotator under test in one run
MaxBatchLen == 2      \* longest sample list of an array shown to it

BatchPeriods == {2, 4}
BatchTimes == {0, 3}
SampleValues == {0 - 1, 0, 1}
Annotations == {"a1", "a2"}

\* timestamps offered to a batch: from a whole period before its first sample
\* to a whole period after its last sample, which covers both tolerance zones
\* and a stretch outside each
Timestamps(self) ==
    LET dt == IF self.determination_time = None THEN 0 ELSE self.determination_time[1]
    IN  (dt - self.sample_period) .. (dt + (Len(self.samples) + 1) * self.sample_period)

RECURSIVE SeqsUpTo(_, _)
SeqsUpTo(S, n) ==
    IF n = 0 THEN {<<>>}
    ELSE LET shorter == SeqsUpTo(S, n - 1)
         IN  shorter \cup {Append(s, x) : s \in {t \in shorter : Len(t) = n - 1}, x \in S}

-----------------------------------------------------------------------------
(* class RtSampleArray *)

\* id stands for the identity of the constructed object: two arrays with equal
\* fields are still two arrays
RtSampleArray(id, determination_time, sample_period, samples, activation_state) ==
    [id                 |-> id,
     determination_time |-> determination_time,
     sample_period      |-> sample_period,
     samples            |-> samples,
     activation_state   |-> activation_state,
     annotations        |-> <<>>,
     apply_annotations  |-> <<>>]

\* int(x) of Python for the rational num / den, den > 0: truncation toward zero
int(num, den) == IF num >= 0 THEN num \div den ELSE 0 - ((0 - num) \div den)

\* (num / den) % 1 >= 0.5 of Python: the remainder of % has the sign of the
\* divisor, so it is the fractional part above floor(num / den)
FracAtLeastHalf(num, den) == 2 * (num % den) >= den

\* _nearest_index with the upper end of the admission window made inclusive
\* (">" written for ">=")
nearest_index_upper_inclusive(self, timestamp) ==
    IF self.determination_time = None THEN None
    ELSE LET dt == self.determination_time[1]
             sp == self.sample_period
         IN  IF 2 * timestamp < 2 * dt - sp THEN None
             ELSE IF 2 * timestamp > 2 * dt + 2 * Len(self.samples) * sp + sp THEN None
             ELSE IF FracAtLeastHalf(timestamp - dt, sp)
                  THEN Some(int(timestamp - dt, sp) + 1)
                  ELSE Some(int(timestamp - dt, sp))

_nearest_index(self, timestamp) ==
    IF self.determination_time = None THEN None
    ELSE LET dt == self.determination_time[1]
             sp == self.sample_period
         IN  IF 2 * timestamp < 2 * dt - sp THEN None
             ELSE IF 2 * timestamp >= 2 * dt + 2 * Len(self.samples) * sp + sp THEN None
             ELSE IF FracAtLeastHalf(timestamp - dt, sp)
                  THEN Some(int(timestamp - dt, sp) + 1)
                  ELSE Some(int(timestamp - dt, sp))

ApplyAnnotation(annotation_index, sample_index) ==
    [AnnotationIndex |-> annotation_index, SampleIndex |-> sample_index]

\* the ApplyAnnotation entries the loop of add_annotations_at appends
RECURSIVE AppliedAt(_, _, _)
AppliedAt(self, annotation_index, timestamps) ==
    IF timestamps = <<>> THEN <<>>
    ELSE LET i == _nearest_index(self, Head(timestamps))
             rest == AppliedAt(self, annotation_index, Tail(timestamps))
         IN  IF i # None THEN <<ApplyAnnotation(annotation_index, i[1])>> \o rest
             ELSE rest

\* add_annotations_at that numbers the annotation from 1 (the index read
\* after the append instead of before the loop)
add_annotations_at_one_based(self, annotation, timestamps) ==
    LET annotation_index == Len(self.annotations) + 1
        new == AppliedAt(self, annotation_index, timestamps)
        applied == new # <<>>
    IN  [self EXCEPT !.apply_annotations = @ \o new,
                     !.annotations = IF applied THEN Append(@, annotation) ELSE @]

\* add_annotations_at that appends the annotation whether or not a timestamp
\* resolved (the "if applied" test dropped)
add_annotations_at_always(self, annotation, timestamps) ==
    LET annotation_index == Len(self.annotations)
        new == AppliedAt(self, annotation_index, timestamps)
    IN  [self EXCEPT !.apply_annotations = @ \o new,
                     !.annotations = Append(@, annotation)]

add_annotations_at(self, annotation, timestamps) ==
    LET annotation_index == Len(self.annotations)
        new == AppliedAt(self, annotation_index, timestamps)
        applied == new # <<>>
    IN  [self EXCEPT !.apply_annotations = @ \o new,
                     !.annotations = IF applied THEN Append(@, annotation) ELSE @]

-----------------------------------------------------------------------------
(* WaveformGeneratorBase (sdc11073.provider.waveforms): a generator has a  *)
(* sampleperiod and next_samples(count), which returns the next count      *)
(* values of its curve; the curve is repeated endlessly.                   *)

WaveformGenerator(sampleperiod, curve) ==
    [sampleperiod |-> sampleperiod, curve |-> curve, pos |-> 0]

Generators == {WaveformGenerator(1, <<1, 0>>), WaveformGenerator(2, <<0>>)}

next_samples(generator, count) ==
    [i \in 1..count |-> generator.curve[((generator.pos + i - 1) % Len(generator.curve)) + 1]]

\* the generator after next_samples(count)
Advanced(generator, count) ==
    [generator EXCEPT !.pos = (@ + count) % Len(generator.curve)]

-----------------------------------------------------------------------------
(* class _SampleArrayGenerator *)

SampleArrayGenerator(descriptor_handle, generator) ==
    [descriptor_handle       |-> descriptor_handle,
     last_timestamp          |-> None,
     activation_state        |-> ON,
     generator               |-> generator,
     current_rt_sample_array |-> None]

sag_set_activation_state(self, component_activation_state, time) ==
    [self EXCEPT !.activation_state = component_activation_state,
                 !.last_timestamp = IF component_activation_state = ON
                                    THEN Some(time) ELSE @]

\* "self._last_timestamp or now": None and 0.0 are both false in Python
ObservationTime(self, time) ==
    IF self.last_timestamp = None \/ self.last_timestamp = Some(0)
    THEN time ELSE self.last_timestamp[1]

\* samples_count of get_next_sample_array when the sampler is ON
SamplesCount(self, time) ==
    int(time - ObservationTime(self, time), self.generator.sampleperiod)

\* get_next_sample_array that advances last_timestamp to the clock reading
\* instead of observation_time + sampleperiod * samples_count
get_next_sample_array_to_now(self, time, id) ==
    IF self.activation_state # ON
    THEN [self EXCEPT !.current_rt_sample_array =
              Some(RtSampleArray(id, None, self.generator.sampleperiod, <<>>,
                                 self.activation_state))]
    ELSE LET observation_time == ObservationTime(self, time)
             samples_count == SamplesCount(self, time)
             samples == next_samples(self.generator, samples_count)
         IN  [self EXCEPT
                 !.generator = Advanced(@, samples_count),
                 !.last_timestamp = Some(time),
                 !.current_rt_sample_array =
                     Some(RtSampleArray(id, Some(observation_time), self.generator.sampleperiod,
                                        samples, self.activation_state))]

\* get_next_sample_array without the test of the activation state: an
\* inactive sampler reads the clock and its generator like an ON sampler
get_next_sample_array_unconditional(self, time, id) ==
    LET observation_time == ObservationTime(self, time)
        samples_count == SamplesCount(self, time)
        samples == next_samples(self.generator, samples_count)
    IN  [self EXCEPT
            !.generator = Advanced(@, samples_count),
            !.last_timestamp =
                Some(observation_time + self.generator.sampleperiod * samples_count),
            !.current_rt_sample_array =
                Some(RtSampleArray(id, Some(observation_time), self.generator.sampleperiod,
                                   samples, self.activation_state))]

\* the sampler after get_next_sample_array(); the returned array is its
\* current_rt_sample_array, and id the identity of that new object
get_next_sample_array(self, time, id) ==
    IF self.activation_state # ON
    THEN [self EXCEPT !.current_rt_sample_array =
              Some(RtSampleArray(id, None, self.generator.sampleperiod, <<>>,
                                 self.activation_state))]
    ELSE LET observation_time == ObservationTime(self, time)
             samples_count == SamplesCount(self, time)
             samples == next_samples(self.generator, samples_count)
         IN  [self EXCEPT
                 !.generator = Advanced(@, samples_count),
                 !.last_timestamp =
                     Some(observation_time + self.generator.sampleperiod * samples_count),
                 !.current_rt_sample_array =
                     Some(RtSampleArray(id, Some(observation_time), self.generator.sampleperiod,
                                        samples, self.activation_state))]

\* set_waveform_generator that starts the sampler afresh with the new generator
set_waveform_generator_afresh(self, generator) ==
    [self EXCEPT !.generator = generator, !.last_timestamp = None,
                 !.current_rt_sample_array = None]

set_waveform_generator(self, generator) ==
    [self EXCEPT !.generator = generator]

is_active(self) == self.activation_state = ON

-----------------------------------------------------------------------------
(* class Annotator *)

Annotator(annotation, trigger_handle, annotated_handles) ==
    [annotation        |-> annotation,
     trigger_handle    |-> trigger_handle,
     annotated_handles |-> annotated_handles,
     last_value        |-> 0]

\* the loop of get_annotation_timestamps with _last_value assigned only when
\* a trigger fires
RECURSIVE ScanSamplesTriggerOnly(_, _, _)
ScanSamplesTriggerOnly(rt_sample_array, last_value, i) ==
    IF i >= Len(rt_sample_array.samples) THEN [ret |-> <<>>, last_value |-> last_value]
    ELSE LET rt_sample == rt_sample_array.samples[i + 1]
             fires == last_value <= 0 /\ rt_sample > 0
             rest == ScanSamplesTriggerOnly(rt_sample_array,
                                            IF fires THEN rt_sample ELSE last_value, i + 1)
         IN  [ret |-> (IF fires
                       THEN <<rt_sample_array.determination_time[1]
                                + i * rt_sample_array.sample_period>>
                       ELSE <<>>) \o rest.ret,
              last_value |-> rest.last_value]

\* the loop of get_annotation_timestamps from the sample with (zero-based)
\* index i on: the timestamps appended to ret and the final _last_value
RECURSIVE ScanSamples(_, _, _)
ScanSamples(rt_sample_array, last_value, i) ==
    IF i >= Len(rt_sample_array.samples) THEN [ret |-> <<>>, last_value |-> last_value]
    ELSE LET rt_sample == rt_sample_array.samples[i + 1]
             rest == ScanSamples(rt_sample_array, rt_sample, i + 1)
         IN  [ret |-> (IF last_value <= 0 /\ rt_sample > 0
                       THEN <<rt_sample_array.determination_time[1]
                                + i * rt_sample_array.sample_period>>
                       ELSE <<>>) \o rest.ret,
              last_value |-> rest.last_value]

\* ret is the list returned, self the annotator after the call
get_annotation_timestamps(self, rt_sample_array) ==
    LET scan == ScanSamples(rt_sample_array, self.last_value, 0)
    IN  [ret |-> scan.ret, self |-> [self EXCEPT !.last_value = scan.last_value]]

-----------------------------------------------------------------------------
(* Python dicts keep their keys in insertion order: a dict is the sequence *)
(* of its [key, value] items.                                              *)

DictKeys(d) == {d[i].key : i \in 1..Len(d)}
DictIndex(d, k) == CHOOSE i \in 1..Len(d) : d[i].key = k
DictGet(d, k) == d[DictIndex(d, k)].value
DictSet(d, k, v) ==
    IF k \in DictKeys(d) THEN [d EXCEPT ![DictIndex(d, k)].value = v]
    ELSE Append(d, [key |-> k, value |-> v])

-----------------------------------------------------------------------------
(* The mdib: descriptor and state containers of the waveform channels.     *)

Handles == {"A", "B"}

DescriptorContainer(sample_period) == [SamplePeriod |-> sample_period]

StateContainer(descriptor_handle) ==
    [DescriptorHandle |-> descriptor_handle, ActivationState |-> ON, MetricValue |-> None]

\* state.mk_metric_value()
mk_metric_value ==
    [Samples |-> <<>>, DeterminationTime |-> None, Annotation |-> <<>>, ApplyAnnotation |-> <<>>]

\* Context(prec=10).create_decimal(s): s rounded to 10 significant digits,
\* half to even
Prec == 10
RECURSIVE Pow10(_)
Pow10(n) == IF n = 0 THEN 1 ELSE 10 * Pow10(n - 1)
RECURSIVE Digits(_)
Digits(n) == IF n < 10 THEN 1 ELSE 1 + Digits(n \div 10)
RoundHalfEven(n, unit) ==
    LET q == n \div unit
        r == n % unit
    IN  IF 2 * r > unit \/ (2 * r = unit /\ q % 2 = 1) THEN (q + 1) * unit ELSE q * unit
create_decimal(s) ==
    LET abs == IF s < 0 THEN 0 - s ELSE s
        rounded == IF Digits(abs) <= Prec THEN abs
                   ELSE RoundHalfEven(abs, Pow10(Digits(abs) - Prec))
    IN  IF s < 0 THEN 0 - rounded ELSE rounded

-----------------------------------------------------------------------------
(* class DefaultWaveformSource.  Each method is an operator from the       *)
(* objects it touches to these objects after the call.                     *)

\* _update_rt_samples(state): the samplers and the state container after it
update_rt_samples(wgs, state, time, id) ==
    IF state.DescriptorHandle \notin DictKeys(wgs)
    THEN [waveform_generators |-> wgs, state |-> state]
    ELSE LET wf_generator == get_next_sample_array(DictGet(wgs, state.DescriptorHandle), time, id)
             rt_sample_array == wf_generator.current_rt_sample_array[1]
             samples == [i \in 1..Len(rt_sample_array.samples) |->
                            create_decimal(rt_sample_array.samples[i])]
             value == IF state.MetricValue = None THEN mk_metric_value
                      ELSE state.MetricValue[1]
         IN  [waveform_generators |-> DictSet(wgs, state.DescriptorHandle, wf_generator),
              state |-> [state EXCEPT
                  !.MetricValue = Some([value EXCEPT
                      !.Samples = samples,
                      !.DeterminationTime = rt_sample_array.determination_time,
                      !.Annotation = rt_sample_array.annotations,
                      !.ApplyAnnotation = rt_sample_array.apply_annotations]),
                  !.ActivationState = rt_sample_array.activation_state]]

\* the first loop of update_all_realtime_samples without its is_active test
RECURSIVE UpdateEvery(_, _, _, _, _)
UpdateEvery(wgs, states, i, time, id) ==
    IF i > Len(wgs) THEN [waveform_generators |-> wgs, states |-> states]
    ELSE LET descriptor_handle == wgs[i].key
             r == update_rt_samples(wgs, states[descriptor_handle], time, id)
         IN  UpdateEvery(r.waveform_generators,
                         [states EXCEPT ![descriptor_handle] = r.state], i + 1, time, id)

\* the first loop of update_all_realtime_samples from item i of
\* _waveform_generators on; states are the containers of the transaction
RECURSIVE UpdateActive(_, _, _, _, _)
UpdateActive(wgs, states, i, time, id) ==
    IF i > Len(wgs) THEN [waveform_generators |-> wgs, states |-> states]
    ELSE IF is_active(wgs[i].value)
    THEN LET descriptor_handle == wgs[i].key
             r == update_rt_samples(wgs, states[descriptor_handle], time, id)
         IN  UpdateActive(r.waveform_generators,
                          [states EXCEPT ![descriptor_handle] = r.state], i + 1, time, id)
    ELSE UpdateActive(wgs, states, i + 1, time, id)

\* rt_sample_arrays of _add_all_annotations: the current array of every sampler
Snapshot(wgs) ==
    [handle \in DictKeys(wgs) |-> DictGet(wgs, handle).current_rt_sample_array]

\* the loop over annotated_handles ending at the first handle that has no
\* sampler ("break" written for skipping it)
RECURSIVE AnnotateHandlesUntilMissing(_, _, _, _)
AnnotateHandlesUntilMissing(st, annotator, timestamps, k) ==
    IF k > Len(annotator.annotated_handles) \/ st.raised THEN st
    ELSE LET dest_handle == annotator.annotated_handles[k]
         IN  IF dest_handle \notin DOMAIN st.rt_sample_arrays
             THEN st
             ELSE IF st.rt_sample_arrays[dest_handle] = None
             THEN [st EXCEPT !.raised = TRUE]
             ELSE AnnotateHandlesUntilMissing(
                    [st EXCEPT
                        !.rt_sample_arrays[dest_handle] =
                            Some(add_annotations_at(@[1], annotator.annotation, timestamps)),
                        !.attached = @ \cup {[annotation |-> annotator.annotation,
                                              dest |-> dest_handle,
                                              id |-> st.rt_sample_arrays[dest_handle][1].id]}],
                    annotator, timestamps, k + 1)

\* the loop over annotated_handles from its k-th entry on.  Calling
\* add_annotations_at on None raises AttributeError, which ends the update.
\* attached collects, per call made, the annotation, the destination and the
\* identity of the array it was made on.
RECURSIVE AnnotateHandles(_, _, _, _)
AnnotateHandles(st, annotator, timestamps, k) ==
    IF k > Len(annotator.annotated_handles) \/ st.raised THEN st
    ELSE LET dest_handle == annotator.annotated_handles[k]
         IN  IF dest_handle \notin DOMAIN st.rt_sample_arrays
             THEN AnnotateHandles(st, annotator, timestamps, k + 1)
             ELSE IF st.rt_sample_arrays[dest_handle] = None
             THEN [st EXCEPT !.raised = TRUE]
             ELSE AnnotateHandles(
                    [st EXCEPT
                        !.rt_sample_arrays[dest_handle] =
                            Some(add_annotations_at(@[1], annotator.annotation, timestamps)),
                        !.attached = @ \cup {[annotation |-> annotator.annotation,
                                              dest |-> dest_handle,
                                              id |-> st.rt_sample_arrays[dest_handle][1].id]}],
                    annotator, timestamps, k + 1)

\* the loop over _annotators from its i-th item on.  Reading .samples of None
\* raises AttributeError.  scanned collects, per get_annotation_timestamps
\* call, the annotation of the annotator, its source and the identity of the
\* array it was shown.
RECURSIVE AnnotateAll(_, _)
AnnotateAll(st, i) ==
    IF i > Len(st.annotators) \/ st.raised THEN st
    ELSE LET src_handle == st.annotators[i].key
             annotator == st.annotators[i].value
         IN  IF src_handle \notin DOMAIN st.rt_sample_arrays THEN AnnotateAll(st, i + 1)
             ELSE IF st.rt_sample_arrays[src_handle] = None THEN [st EXCEPT !.raised = TRUE]
             ELSE LET r == get_annotation_timestamps(annotator, st.rt_sample_arrays[src_handle][1])
                      seen == [st EXCEPT
                                 !.annotators[i].value = r.self,
                                 !.scanned = @ \cup {[annotation |-> annotator.annotation,
                                                      source |-> src_handle,
                                                      id |-> st.rt_sample_arrays[src_handle][1].id]}]
                  IN  IF r.ret # <<>>
                      THEN AnnotateAll(AnnotateHandles(seen, r.self, r.ret, 1), i + 1)
                      ELSE AnnotateAll(seen, i + 1)

\* _add_all_annotations: the arrays in rt_sample_arrays are the objects the
\* samplers hold, so what is added to them is added to the samplers' arrays.
\* snapshot is rt_sample_arrays as first built.
add_all_annotations(wgs, anns) ==
    LET st == AnnotateAll([rt_sample_arrays |-> Snapshot(wgs), annotators |-> anns,
                           raised |-> FALSE, scanned |-> {}, attached |-> {}], 1)
    IN  [waveform_generators |->
            [i \in 1..Len(wgs) |->
                [wgs[i] EXCEPT !.value.current_rt_sample_array = st.rt_sample_arrays[wgs[i].key]]],
         annotators |-> st.annotators,
         raised     |-> st.raised,
         snapshot   |-> Snapshot(wgs),
         scanned    |-> st.scanned,
         attached   |-> st.attached]

\* the state containers when _update_rt_samples stores copies of the two
\* lists: what is added to the arrays later does not reach them
SharedListsCopied(states, before, wgs) == states

\* MetricValue.Annotation and MetricValue.ApplyAnnotation of a state written
\* in this update are the lists of the sampler's current array, not copies:
\* the state containers as they stand once the annotations are added
SharedLists(states, before, wgs) ==
    [handle \in DOMAIN states |->
        IF handle \in DictKeys(before) /\ is_active(DictGet(before, handle))
        THEN [states[handle] EXCEPT
                !.MetricValue[1].Annotation =
                    DictGet(wgs, handle).current_rt_sample_array[1].annotations,
                !.MetricValue[1].ApplyAnnotation =
                    DictGet(wgs, handle).current_rt_sample_array[1].apply_annotations]
        ELSE states[handle]]

\* the handles whose state container holds the data of the array that
\* rt_sample_arrays maps them to
Written(states, rt_sample_arrays) ==
    {handle \in DOMAIN rt_sample_arrays :
        /\ rt_sample_arrays[handle] # None
        /\ states[handle].MetricValue # None
        /\ states[handle].MetricValue[1].DeterminationTime
              = rt_sample_arrays[handle][1].determination_time
        /\ states[handle].MetricValue[1].Samples
              = [i \in 1..Len(rt_sample_arrays[handle][1].samples) |->
                    create_decimal(rt_sample_arrays[handle][1].samples[i])]
        /\ states[handle].ActivationState = rt_sample_arrays[handle][1].activation_state}

\* update_all_realtime_samples with the two steps exchanged: the annotations
\* are added before the new arrays are fetched
update_all_realtime_samples_annotate_first(wgs, anns, states, time, id) ==
    LET annotated == add_all_annotations(wgs, anns)
        generated == UpdateActive(annotated.waveform_generators, states, 1, time, id)
    IN  [waveform_generators |-> IF annotated.raised THEN annotated.waveform_generators
                                 ELSE generated.waveform_generators,
         annotators |-> annotated.annotators,
         states     |-> IF annotated.raised THEN states ELSE generated.states,
         raised     |-> annotated.raised,
         snapshot   |-> annotated.snapshot,
         written    |-> Written(states, annotated.snapshot),
         scanned    |-> annotated.scanned,
         attached   |-> annotated.attached]

\* update_all_realtime_samples(transaction).  When the call raises, the caller
\* leaves its transaction without committing: the mdib states stay as they were.
\* written: the handles whose state container of the transaction held the
\* data of their current array when _add_all_annotations began.
update_all_realtime_samples(wgs, anns, states, time, id) ==
    LET generated == UpdateActive(wgs, states, 1, time, id)
        annotated == add_all_annotations(generated.waveform_generators, anns)
    IN  [waveform_generators |-> annotated.waveform_generators,
         annotators |-> annotated.annotators,
         states     |-> IF annotated.raised THEN states
                        ELSE SharedLists(generated.states, wgs, annotated.waveform_generators),
         raised     |-> annotated.raised,
         snapshot   |-> annotated.snapshot,
         written    |-> Written(generated.states, annotated.snapshot),
         scanned    |-> annotated.scanned,
         attached   |-> annotated.attached]

\* register_waveform_generator that brings the descriptor up to date only
\* when it creates the sampler, not when it replaces a generator
register_waveform_generator_new_only(wgs, descriptors, descriptor_handle, wf_generator) ==
    [descriptors |->
        IF /\ descriptor_handle \notin DictKeys(wgs)
           /\ descriptors[descriptor_handle].SamplePeriod # wf_generator.sampleperiod
        THEN [descriptors EXCEPT ![descriptor_handle].SamplePeriod = wf_generator.sampleperiod]
        ELSE descriptors,
     waveform_generators |->
        IF descriptor_handle \in DictKeys(wgs)
        THEN DictSet(wgs, descriptor_handle,
                     set_waveform_generator(DictGet(wgs, descriptor_handle), wf_generator))
        ELSE DictSet(wgs, descriptor_handle,
                     SampleArrayGenerator(descriptor_handle, wf_generator))]

\* register_waveform_generator(descriptor_handle, wf_generator)
register_waveform_generator(wgs, descriptors, descriptor_handle, wf_generator) ==
    [descriptors |->
        IF descriptors[descriptor_handle].SamplePeriod # wf_generator.sampleperiod
        THEN [descriptors EXCEPT ![descriptor_handle].SamplePeriod = wf_generator.sampleperiod]
        ELSE descriptors,
     waveform_generators |->
        IF descriptor_handle \in DictKeys(wgs)
        THEN DictSet(wgs, descriptor_handle,
                     set_waveform_generator(DictGet(wgs, descriptor_handle), wf_generator))
        ELSE DictSet(wgs, descriptor_handle,
                     SampleArrayGenerator(descriptor_handle, wf_generator))]

\* set_activation_state(descriptor_handle, component_activation_state), for a
\* handle of _waveform_generators
set_activation_state(wgs, states, descriptor_handle, component_activation_state, time) ==
    LET wf_generator == sag_set_activation_state(DictGet(wgs, descriptor_handle),
                                                 component_activation_state, time)
    IN  [waveform_generators |-> DictSet(wgs, descriptor_handle, wf_generator),
         states |-> [states EXCEPT
            ![descriptor_handle].ActivationState = component_activation_state,
            ![descriptor_handle].MetricValue = IF ~is_active(wf_generator) THEN None ELSE @]]

\* register_annotation_generator(annotator)
register_annotation_generator(anns, annotator) ==
    DictSet(anns, annotator.trigger_handle, annotator)

-----------------------------------------------------------------------------
(* SpecBatch: one RtSampleArray, driven by _nearest_index and              *)
(* add_annotations_at calls with arbitrary timestamps.                     *)

\* a batch without determination time is the one get_next_sample_array builds
\* for an inactive sampler: it has no samples
TestBatches ==
    {RtSampleArray(0, None, p, <<>>, "Off") : p \in BatchPeriods}
    \cup {RtSampleArray(0, Some(t), p, [i \in 1..n |-> 0], ON) :
            t \in BatchTimes, p \in BatchPeriods, n \in 0..MaxSamples}

\* the admission window as the specification words it: a timestamp is outside
\* when the batch has no determination time, or it lies more than half a
\* period before the first sample, or at least half a period after
\* determination_time + len(samples) * sample_period
OutsideWindow(self, timestamp) ==
    \/ self.determination_time = None
    \/ 2 * timestamp < 2 * self.determination_time[1] - self.sample_period
    \/ 2 * timestamp >= 2 * self.determination_time[1]
                         + (2 * Len(self.samples) + 1) * self.sample_period

NoCall == [op |-> "init"]

\* a DefaultWaveformSource as constructed, over an mdib with the channels of
\* Handles, each declared with a sample period of 2 ticks
InitSource ==
    /\ waveform_generators = <<>>
    /\ annotators = <<>>
    /\ mdib_descriptors = [handle \in Handles |-> DescriptorContainer(2)]
    /\ mdib_states = [handle \in Handles |-> StateContainer(handle)]
    /\ registered = {}
    /\ cycle = 0
    /\ switched = 0

IdleBatch == RtSampleArray(0, None, 1, <<>>, "Off")
IdleSampler == SampleArrayGenerator("", WaveformGenerator(1, <<0>>))
\* stream: the samples the annotator has been shown, in order; emitted: the
\* positions in stream (from 1) of the samples it returned a timestamp for
IdleDetector == [self |-> Annotator("", "", <<>>), stream |-> <<>>, emitted |-> {}]
NoPolls == [steady |-> TRUE, first |-> None, last |-> None, requested |-> 0, activated |-> None]

InitBatch ==
    /\ rsa \in TestBatches
    /\ call = NoCall
    /\ now = 0
    /\ sag = IdleSampler
    /\ polls = NoPolls
    /\ detector = IdleDetector
    /\ InitSource

CallNearestIndex ==
    \E timestamp \in Timestamps(rsa) :
        /\ call' = [op |-> "_nearest_index",
                    timestamps |-> <<timestamp>>, ret |-> _nearest_index(rsa, timestamp)]
        /\ UNCHANGED <<detector, now, rsa, sag, polls, source>>

\* call.offered is the number of timestamps passed and call.inside the number
\* of them that lie inside the admission window of the batch
CallAddAnnotationsAt ==
    \E annotation \in Annotations,
       timestamps \in SeqsUpTo(Timestamps(rsa), MaxEntries - Len(rsa.apply_annotations)) :
        /\ rsa' = add_annotations_at(rsa, annotation, timestamps)
        /\ call' = [op |-> "add_annotations_at", annotation |-> annotation,
                    offered |-> Len(timestamps),
                    inside |-> Cardinality({k \in 1..Len(timestamps) :
                                              ~OutsideWindow(rsa, timestamps[k])})]
        /\ UNCHANGED <<detector, now, sag, polls, source>>

NextBatch == CallNearestIndex \/ CallAddAnnotationsAt

SpecBatch == InitBatch /\ [][NextBatch]_vars

-----------------------------------------------------------------------------
(* SpecSampler: one _SampleArrayGenerator under a clock that never runs    *)
(* backwards, driven by get_next_sample_array, set_activation_state and    *)
(* set_waveform_generator calls.                                           *)

InitSampler ==
    /\ now = 0
    /\ \E generator \in Generators : sag = SampleArrayGenerator("A", generator)
    /\ polls = NoPolls
    /\ detector = IdleDetector
    /\ call = NoCall
    /\ rsa = IdleBatch
    /\ InitSource

\* time passes between two calls
Advance(limit) ==
    \E d \in 1..MaxStep :
        /\ now + d <= limit
        /\ now' = now + d
        /\ UNCHANGED <<detector, rsa, sag, polls, source, call>>

SamplerTick == Advance(MaxTime)

\* call.last_timestamp is the sampler's last_timestamp before the call.
\* polls: steady while the sampler has stayed ON with its first generator;
\* first and last are the clock readings of the first and the latest
\* get_next_sample_array call, requested is the number of samples the
\* generator has handed out to these calls; activated is the clock reading of
\* a set_activation_state(ON) that no get_next_sample_array has followed yet.
SamplerGetNext ==
    /\ sag' = get_next_sample_array(sag, now, 0)
    /\ call' = [op |-> "get_next_sample_array", time |-> now,
                last_timestamp |-> sag.last_timestamp, activated |-> polls.activated]
    /\ polls' = [polls EXCEPT
                    !.first = IF @ = None THEN Some(now) ELSE @,
                    !.last = Some(now),
                    !.requested = @ + Len(sag'.current_rt_sample_array[1].samples),
                    !.activated = None]
    /\ UNCHANGED <<detector, now, rsa, source>>

SamplerSetActivationState ==
    \E component_activation_state \in ComponentActivation :
        /\ sag' = sag_set_activation_state(sag, component_activation_state, now)
        /\ call' = [op |-> "set_activation_state", time |-> now, last_timestamp |-> sag.last_timestamp,
                    state |-> component_activation_state]
        /\ polls' = [polls EXCEPT
                        !.steady = FALSE,
                        !.activated = IF component_activation_state = ON
                                      THEN Some(now) ELSE None]
        /\ UNCHANGED <<detector, now, rsa, source>>

SamplerSetGenerator ==
    \E generator \in Generators :
        /\ sag' = set_waveform_generator(sag, generator)
        /\ call' = [op |-> "set_waveform_generator", time |-> now, last_timestamp |-> sag.last_timestamp]
        /\ polls' = [polls EXCEPT !.steady = FALSE]
        /\ UNCHANGED <<detector, now, rsa, source>>

NextSampler == SamplerTick \/ SamplerGetNext \/ SamplerSetActivationState \/ SamplerSetGenerator

SpecSampler == InitSampler /\ [][NextSampler]_vars

-----------------------------------------------------------------------------
(* SpecAnnotator: one Annotator, shown one array after the other.          *)

InitAnnotator ==
    /\ detector = [self |-> Annotator("a1", "A", <<"B">>), stream |-> <<>>, emitted |-> {}]
    /\ call = NoCall
    /\ now = 0
    /\ rsa = IdleBatch
    /\ sag = IdleSampler
    /\ polls = NoPolls
    /\ InitSource

\* the arrays a sampler can hand over: without determination time only the
\* empty one of an inactive sampler
ArraysShown ==
    {RtSampleArray(0, None, p, <<>>, "Off") : p \in BatchPeriods}
    \cup {RtSampleArray(0, Some(t), p, samples, ON) :
            t \in BatchTimes, p \in BatchPeriods,
            samples \in SeqsUpTo(SampleValues, MaxBatchLen)}

\* call.last_value is the annotator's _last_value before the call
CallGetAnnotationTimestamps ==
    \E rt_sample_array \in ArraysShown :
        /\ Len(detector.stream) + Len(rt_sample_array.samples) <= MaxShown
        /\ LET r == get_annotation_timestamps(detector.self, rt_sample_array)
           IN  /\ rsa' = rt_sample_array
               /\ detector' =
                    [self |-> r.self,
                     stream |-> detector.stream \o rt_sample_array.samples,
                     emitted |-> detector.emitted \cup
                        {Len(detector.stream) + 1
                           + (r.ret[k] - rt_sample_array.determination_time[1])
                                \div rt_sample_array.sample_period : k \in 1..Len(r.ret)}]
               /\ call' = [op |-> "get_annotation_timestamps", ret |-> r.ret,
                           last_value |-> detector.self.last_value]
        /\ UNCHANGED <<now, sag, polls, source>>

NextAnnotator == CallGetAnnotationTimestamps

SpecAnnotator == InitAnnotator /\ [][NextAnnotator]_vars

-----------------------------------------------------------------------------
(* Spec: a DefaultWaveformSource and its mdib, driven by the calls of the  *)
(* device: registrations, set_activation_state and the periodic            *)
(* update_all_realtime_samples, one call at a time.                        *)

\* the annotators the device may register: both have the trigger handle "A",
\* and one also annotates a handle ("C") that has no waveform generator
AnnotatorsOffered ==
    {Annotator("a1", "A", <<"B">>),
     Annotator("a2", "A", <<"C", "B">>)}

\* the device starts at a clock reading after the epoch
Init ==
    /\ now = 1
    /\ InitSource
    /\ call = NoCall
    /\ rsa = IdleBatch
    /\ sag = IdleSampler
    /\ polls = NoPolls
    /\ detector = IdleDetector

Tick == Advance(MaxRunTime)

\* the generators the device registers for a handle: channel "B", which no
\* annotator scans, always gets a generator of period 2
GeneratorsOffered(descriptor_handle) ==
    {g \in Generators : descriptor_handle = "B" => g.sampleperiod = 2}

\* the activation states the device switches between; the source treats
\* every state other than ON alike
ActivationsOffered == {ON, "Off"}

RegisterWaveformGenerator ==
    \E descriptor_handle \in Handles :
      \E wf_generator \in GeneratorsOffered(descriptor_handle) :
        LET r == register_waveform_generator(waveform_generators, mdib_descriptors,
                                             descriptor_handle, wf_generator)
        IN  /\ waveform_generators' = r.waveform_generators
            /\ mdib_descriptors' = r.descriptors
            /\ call' = NoCall
            /\ UNCHANGED <<detector, now, rsa, sag, polls, annotators, mdib_states, registered, cycle, switched>>

\* for a handle without waveform generator the method raises KeyError before
\* it changes anything
SetActivationState ==
    /\ switched < MaxSwitches
    /\ switched' = switched + 1
    /\ \E descriptor_handle \in DictKeys(waveform_generators),
       component_activation_state \in ActivationsOffered :
        LET r == set_activation_state(waveform_generators, mdib_states, descriptor_handle,
                                      component_activation_state, now)
        IN  /\ waveform_generators' = r.waveform_generators
            /\ mdib_states' = r.states
            /\ call' = NoCall
            /\ UNCHANGED <<detector, now, rsa, sag, polls, annotators, mdib_descriptors, registered, cycle>>

\* every annotator is a new object and is registered once
RegisterAnnotationGenerator ==
    \E annotator \in AnnotatorsOffered \ registered :
        /\ annotators' = register_annotation_generator(annotators, annotator)
        /\ registered' = registered \cup {annotator}
        /\ call' = NoCall
        /\ UNCHANGED <<detector, now, rsa, sag, polls, waveform_generators, mdib_descriptors,
                       mdib_states, cycle, switched>>

\* call.active: the handles whose sampler is ON when the update starts
UpdateAllRealtimeSamples ==
    /\ cycle < MaxCycles
    /\ LET r == update_all_realtime_samples(waveform_generators, annotators, mdib_states,
                                            now, cycle + 1)
       IN  /\ waveform_generators' = r.waveform_generators
           /\ annotators' = r.annotators
           /\ mdib_states' = r.states
           /\ cycle' = cycle + 1
           /\ call' = [op |-> "update_all_realtime_samples",
                       active   |-> {h \in DictKeys(waveform_generators) :
                                        is_active(DictGet(waveform_generators, h))},
                       snapshot |-> r.snapshot,
                       written  |-> r.written,
                       scanned  |-> r.scanned,
                       attached |-> r.attached,
                       raised   |-> r.raised]
           /\ UNCHANGED <<detector, now, rsa, sag, polls, mdib_descriptors, registered, switched>>

Next ==
    \/ Tick
    \/ RegisterWaveformGenerator
    \/ SetActivationState
    \/ RegisterAnnotationGenerator
    \/ UpdateAllRealtimeSamples

Spec == Init /\ [][Next]_vars

-----------------------------------------------------------------------------
(* Properties of RtSampleArray, checked under SpecBatch *)

\* floor(pos) + 1 if the fractional part of pos is >= 0.5, else floor(pos),
\* for pos = (timestamp - determination_time) / sample_period
RoundHalfUp(self, timestamp) ==
    LET num == timestamp - self.determination_time[1]
        floor == num \div self.sample_period
        frac == num - floor * self.sample_period      \* in units of 1/sample_period
    IN  IF 2 * frac >= self.sample_period THEN floor + 1 ELSE floor

\* C2: for every timestamp inside the admission window of a batch with a
\* determination time, _nearest_index returns floor(pos) + 1 when the
\* fractional part of pos is >= 0.5 and floor(pos) otherwise, also for
\* timestamps before determination_time (negative pos).
C2_NearestIndexRoundsHalfUp ==
    (call.op = "_nearest_index" /\ ~OutsideWindow(rsa, call.timestamps[1]))
        => call.ret = Some(RoundHalfUp(rsa, call.timestamps[1]))

\* C3: after any sequence of add_annotations_at calls every entry of
\* apply_annotations has 0 <= sample index < len(samples).
C3_SampleIndexValid ==
    \A k \in 1..Len(rsa.apply_annotations) :
        /\ 0 <= rsa.apply_annotations[k].SampleIndex
        /\ rsa.apply_annotations[k].SampleIndex < Len(rsa.samples)

\* C8: an add_annotations_at call in which no timestamp lies inside the
\* admission window (or the batch has no determination time, or the list is
\* empty) leaves annotations and apply_annotations of the batch unchanged.
C8_NoMatchIsNoOp ==
    [][(call'.op = "add_annotations_at" /\ call'.inside = 0)
       => (/\ rsa'.annotations = rsa.annotations
           /\ rsa'.apply_annotations = rsa.apply_annotations)]_vars

\* C8 witness: a batch with a determination time that already carries an
\* annotation has been offered a non-empty list of timestamps, all outside
\* its admission window.
C8_Witness ==
    /\ call.op = "add_annotations_at"
    /\ call.offered > 0
    /\ call.inside = 0
    /\ rsa.determination_time # None
    /\ Len(rsa.annotations) = 1

\* C10: _nearest_index returns None exactly when the batch has no
\* determination time, or timestamp < determination_time - 0.5 * period, or
\* timestamp >= determination_time + len(samples) * period + 0.5 * period;
\* for every other timestamp it returns an index.
C10_AdmissionWindow ==
    call.op = "_nearest_index"
        => ((call.ret = None) <=> OutsideWindow(rsa, call.timestamps[1]))

\* C10 witness: a timestamp exactly on the upper bound of the window of a
\* batch with samples was refused.
C10_Witness ==
    /\ call.op = "_nearest_index"
    /\ rsa.determination_time # None
    /\ rsa.samples # <<>>
    /\ 2 * call.timestamps[1] = 2 * rsa.determination_time[1]
                                  + (2 * Len(rsa.samples) + 1) * rsa.sample_period
    /\ call.ret = None

\* C17: an add_annotations_at call in which k >= 1 timestamps resolve
\* appends the annotation once to annotations and k entries to
\* apply_annotations, all with the index the annotation got; after any
\* sequence of calls every entry of apply_annotations has an annotation index
\* < len(annotations), every annotation is referenced by an entry, and the
\* entries that were there are unchanged.
C17_AnnotationIndexValid ==
    [][/\ (call'.op = "add_annotations_at" /\ call'.inside >= 1) =>
            /\ rsa'.annotations = Append(rsa.annotations, call'.annotation)
            /\ Len(rsa'.apply_annotations) = Len(rsa.apply_annotations) + call'.inside
            /\ \A k \in (Len(rsa.apply_annotations) + 1)..Len(rsa'.apply_annotations) :
                  /\ rsa'.apply_annotations[k].AnnotationIndex = Len(rsa.annotations)
                  /\ rsa'.annotations[rsa'.apply_annotations[k].AnnotationIndex + 1]
                        = call'.annotation
       /\ \A k \in 1..Len(rsa'.apply_annotations) :
            /\ 0 <= rsa'.apply_annotations[k].AnnotationIndex
            /\ rsa'.apply_annotations[k].AnnotationIndex < Len(rsa'.annotations)
       /\ \A i \in 0..(Len(rsa'.annotations) - 1) :
            \E k \in 1..Len(rsa'.apply_annotations) :
                rsa'.apply_annotations[k].AnnotationIndex = i
       /\ SubSeq(rsa'.annotations, 1, Len(rsa.annotations)) = rsa.annotations
       /\ SubSeq(rsa'.apply_annotations, 1, Len(rsa.apply_annotations)) = rsa.apply_annotations
      ]_vars

\* C17 witness: a second annotation has been attached to a batch that
\* already carried one; its entry has the index 1.
C17_Witness ==
    /\ call.op = "add_annotations_at"
    /\ call.inside = 1
    /\ Len(rsa.annotations) = 2
    /\ Len(rsa.apply_annotations) = 2
    /\ rsa.apply_annotations[1].AnnotationIndex = 0
    /\ rsa.apply_annotations[2].AnnotationIndex = 1

-----------------------------------------------------------------------------
(* Properties of _SampleArrayGenerator, checked under SpecSampler *)

\* C1: for a sampler that stays ON with one generator of sample period p,
\* first polled at clock reading t0 > 0 and last polled at tN, the sum of the
\* sample counts requested from the generator over all polls is
\* floor((tN - t0) / p).
C1_DriftFreePacing ==
    (polls.steady /\ polls.first # None /\ polls.first # Some(0))
        => polls.requested = (polls.last[1] - polls.first[1]) \div sag.generator.sampleperiod

\* C1 witness: the sampler has been polled at readings that are not a whole
\* number of periods apart, the latest poll emitted no sample, and samples of
\* more than one earlier poll add up.
C1_Witness ==
    /\ polls.steady
    /\ polls.first # None /\ polls.first # Some(0)
    /\ (polls.last[1] - polls.first[1]) % sag.generator.sampleperiod # 0
    /\ polls.requested >= 2
    /\ call.op = "get_next_sample_array"
    /\ sag.current_rt_sample_array[1].samples = <<>>
    /\ call.time > call.last_timestamp[1]

\* C9: set_activation_state(ON) sets last_timestamp to the clock reading t_r
\* of that moment, and the first get_next_sample_array after it, polled at t,
\* emits floor((t - t_r) / sample_period) samples with determination time
\* t_r; set_activation_state to another state leaves last_timestamp unchanged.
C9_ReactivationResetsPacing ==
    /\ (call.op = "set_activation_state" /\ call.state = ON)
           => sag.last_timestamp = Some(call.time)
    /\ (call.op = "set_activation_state" /\ call.state # ON)
           => sag.last_timestamp = call.last_timestamp
    /\ (call.op = "get_next_sample_array" /\ call.activated # None)
           => /\ sag.current_rt_sample_array[1].determination_time = call.activated
              /\ Len(sag.current_rt_sample_array[1].samples)
                    = (call.time - call.activated[1]) \div sag.generator.sampleperiod

-----------------------------------------------------------------------------
(* Properties of Annotator, checked under SpecAnnotator *)

\* the positions of a stream of samples at which the value is > 0 and the
\* value before it (0 before the first sample) is <= 0
RisingEdges(stream) ==
    {k \in 1..Len(stream) :
        stream[k] > 0 /\ (IF k = 1 THEN 0 ELSE stream[k - 1]) <= 0}

\* the timestamps due for the array last shown: determination_time
\* + i * sample_period for each of its samples i, in order, whose position in
\* the stream is a rising edge
TimestampsDue ==
    LET shown_before == Len(detector.stream) - Len(rsa.samples)
        IsEdge(i) == (shown_before + i + 1) \in RisingEdges(detector.stream)
        edges == SelectSeq([i \in 1..Len(rsa.samples) |-> i - 1], IsEdge)
    IN  [k \in 1..Len(edges) |-> rsa.determination_time[1] + edges[k] * rsa.sample_period]

\* C16: over the arrays an annotator is shown in successive calls, it
\* returns a timestamp for exactly the samples that are > 0 while the value
\* before them in the concatenated stream (0 before any sample) is <= 0,
\* whatever the split into arrays; the timestamp is determination_time
\* + i * sample_period of the array holding sample i; after each call
\* _last_value is the last sample of the array, or as before for an empty one.
C16_RisingEdgeOverStream ==
    /\ detector.emitted = RisingEdges(detector.stream)
    /\ call.op = "get_annotation_timestamps" =>
          /\ call.ret = TimestampsDue
          /\ detector.self.last_value =
                IF rsa.samples = <<>> THEN call.last_value
                ELSE rsa.samples[Len(rsa.samples)]

\* C16 witness: the annotator was shown samples ending in a value < 0 and
\* then an array that starts with a value > 0 and goes on: the edge across
\* the arrays gave a timestamp.
C16_Witness ==
    /\ call.op = "get_annotation_timestamps"
    /\ Len(rsa.samples) = 2
    /\ Len(detector.stream) = 4
    /\ detector.stream[2] < 0
    /\ detector.stream[3] > 0
    /\ call.last_value < 0
    /\ call.ret = <<rsa.determination_time[1]>>
    /\ detector.emitted = {1, 3}

-----------------------------------------------------------------------------
(* More properties of _SampleArrayGenerator, checked under SpecSampler *)

\* C15: get_next_sample_array on a sampler that is not ON makes an array
\* with determination_time None, no samples, the sample period of the
\* generator and the activation state of the sampler, and leaves the
\* generator (no next_samples call) and last_timestamp as they were; and every
\* array a sampler holds with determination_time None has no samples.
C15_InactiveGeneration ==
    [][/\ (now' = now /\ call'.op = "get_next_sample_array" /\ sag.activation_state # ON) =>
            /\ sag'.current_rt_sample_array # None
            /\ LET rt_sample_array == sag'.current_rt_sample_array[1]
               IN  /\ rt_sample_array.determination_time = None
                   /\ rt_sample_array.samples = <<>>
                   /\ rt_sample_array.sample_period = sag.generator.sampleperiod
                   /\ rt_sample_array.activation_state = sag.activation_state
            /\ sag'.generator = sag.generator
            /\ sag'.last_timestamp = sag.last_timestamp
            /\ sag'.activation_state = sag.activation_state
       /\ (sag'.current_rt_sample_array # None
            /\ sag'.current_rt_sample_array[1].determination_time = None)
            => sag'.current_rt_sample_array[1].samples = <<>>
      ]_vars

\* C15 witness: a sampler that had handed out a sample and was then
\* deactivated has been polled two periods or more after its last_timestamp.
C15_Witness ==
    /\ call.op = "get_next_sample_array"
    /\ sag.activation_state # ON
    /\ sag.generator.pos = 1
    /\ sag.last_timestamp # None
    /\ call.time >= sag.last_timestamp[1] + 2 * sag.generator.sampleperiod
    /\ sag.current_rt_sample_array[1].determination_time = None

\* C18: get_next_sample_array on an ON sampler gives the array the
\* determination time last_timestamp whenever last_timestamp has been set,
\* also when it was set to 0, and the clock reading only when it has never
\* been set.
C18_ObservationTimeIsLastTimestamp ==
    (call.op = "get_next_sample_array" /\ is_active(sag)) =>
        sag.current_rt_sample_array[1].determination_time
            = (IF call.last_timestamp = None THEN Some(call.time) ELSE call.last_timestamp)

\* C19: while a sampler stays ON with the same generator, the array of a
\* get_next_sample_array call has the determination time of the array of the
\* call before plus len(samples) * sample_period of that array, and right
\* after each call 0 <= now - last_timestamp < sample_period.
C19_BatchContiguity ==
    [][(now' = now /\ call'.op = "get_next_sample_array" /\ polls'.steady) =>
          /\ sag.current_rt_sample_array # None =>
                sag'.current_rt_sample_array[1].determination_time
                    = Some(sag.current_rt_sample_array[1].determination_time[1]
                           + Len(sag.current_rt_sample_array[1].samples)
                               * sag.generator.sampleperiod)
          /\ 0 <= now' - sag'.last_timestamp[1]
          /\ now' - sag'.last_timestamp[1] < sag'.generator.sampleperiod
      ]_vars

-----------------------------------------------------------------------------
(* Properties of DefaultWaveformSource, checked under Spec.  While call    *)
(* records an update, the other variables are as that update left them.    *)

Updated == call.op = "update_all_realtime_samples"

\* C4: in every update each registered channel whose sampler is not ON maps
\* in the snapshot used for annotation to an empty array without
\* determination time, never to an array of an earlier cycle or to None.
C4_InactiveSnapshotIsPlaceholder ==
    Updated =>
        \A handle \in DOMAIN call.snapshot \ call.active :
            /\ call.snapshot[handle] # None
            /\ call.snapshot[handle][1].determination_time = None
            /\ call.snapshot[handle][1].samples = <<>>

\* C5: within one update the new array of every ON channel has been fetched
\* and written to its state container before any annotator is evaluated, so
\* every annotator scans, and every annotation lands on, the array that an ON
\* channel produced in this very cycle.
C5_CrossChannelOrdering ==
    Updated =>
        /\ \A handle \in call.active :
              /\ call.snapshot[handle] # None
              /\ call.snapshot[handle][1].id = cycle
              /\ handle \in call.written
        /\ \A e \in call.scanned : e.source \in call.active => e.id = cycle
        /\ \A e \in call.attached : e.dest \in call.active => e.id = cycle

\* C5 witness: in the second cycle an annotator triggered by channel A has
\* annotated channel B; both are ON and B was registered before A.
C5_Witness ==
    /\ Updated
    /\ cycle = 2
    /\ Len(waveform_generators) = 2
    /\ waveform_generators[1].key = "B"
    /\ call.active = {"A", "B"}
    /\ \E e \in call.attached : e.dest = "B" /\ e.id = 2

\* C6: a channel that set_activation_state has put in a state s other than
\* ON has a state container with activation state s and without MetricValue,
\* whatever updates follow, until it is set ON again.
C6_DeactivationClearsValue ==
    \A handle \in DictKeys(waveform_generators) :
        ~is_active(DictGet(waveform_generators, handle))
            => /\ mdib_states[handle].ActivationState
                    = DictGet(waveform_generators, handle).activation_state
               /\ mdib_states[handle].MetricValue = None

\* C6 witness: channel A, which had published samples, is not ON, an update
\* has run since, and its state container carries no value.
C6_Witness ==
    /\ Updated
    /\ ~call.raised
    /\ "A" \in DOMAIN call.snapshot \ call.active
    /\ call.snapshot["A"] # None
    /\ call.snapshot["A"][1].samples # <<>>
    /\ mdib_states["A"].ActivationState # ON
    /\ mdib_states["A"].MetricValue = None

\* C7: every annotator that was registered, whose trigger handle is in the
\* snapshot, is evaluated by each update; none is dropped or replaced by a
\* later registration.
C7_EveryRegisteredAnnotatorRuns ==
    (Updated /\ ~call.raised) =>
        \A annotator \in registered :
            annotator.trigger_handle \in DOMAIN call.snapshot
                => \E e \in call.scanned : e.annotation = annotator.annotation

C12_DescriptorBeforeValues ==
    /\ \A handle \in DictKeys(waveform_generators) :
          mdib_descriptors[handle].SamplePeriod
              = DictGet(waveform_generators, handle).generator.sampleperiod
    /\ Updated =>
          \A handle \in call.active :
              call.snapshot[handle][1].sample_period = mdib_descriptors[handle].SamplePeriod

\* C12 witness: channel A first produced samples of the generator of period 1
\* (its annotator has seen the value 1), then its generator was replaced, and
\* the second update wrote an array of period 2 under a descriptor that
\* declares 2.
C12_Witness ==
    /\ Updated
    /\ ~call.raised
    /\ cycle = 2
    /\ "A" \in call.active
    /\ call.snapshot["A"][1].sample_period = 2
    /\ mdib_descriptors["A"].SamplePeriod = 2
    /\ "A" \in DictKeys(annotators)
    /\ DictGet(annotators, "A").last_value = 1

\* the handles an annotator names as destinations
Destinations(annotator) ==
    {annotator.annotated_handles[k] : k \in 1..Len(annotator.annotated_handles)}

\* C13: in an update, an annotator whose trigger handle has no sampler is
\* not evaluated: it stays as it was and nothing is scanned or attached for
\* it.  When an annotator finds timestamps, a destination handle without
\* sampler is skipped and every destination that has a sampler gets the
\* add_annotations_at call on its array.  A handle without sampler never
\* makes the update raise: an update raises only when a channel that has a
\* sampler has no array.
C13_MissingChannelIsSkipped ==
    [][cycle' = cycle + 1 =>
        /\ \A i \in 1..Len(annotators) :
              LET annotator == annotators[i].value
                  src_handle == annotators[i].key
              IN  IF src_handle \notin DOMAIN call'.snapshot
                  THEN /\ annotators'[i] = annotators[i]
                       /\ \A e \in call'.scanned \cup call'.attached :
                              e.annotation # annotator.annotation
                  ELSE (call'.snapshot[src_handle] # None /\ ~call'.raised) =>
                       LET timestamps ==
                               get_annotation_timestamps(annotator,
                                                         call'.snapshot[src_handle][1]).ret
                       IN  timestamps # <<>> =>
                           /\ \A e \in call'.attached : e.dest \in DOMAIN call'.snapshot
                           /\ \A dest_handle \in Destinations(annotator) \cap DOMAIN call'.snapshot :
                                 /\ \E e \in call'.attached :
                                        e.dest = dest_handle /\ e.annotation = annotator.annotation
                                 /\ DictGet(waveform_generators', dest_handle).current_rt_sample_array
                                        = Some(add_annotations_at(call'.snapshot[dest_handle][1],
                                                                  annotator.annotation, timestamps))
        /\ call'.raised => \E handle \in DOMAIN call'.snapshot : call'.snapshot[handle] = None
      ]_vars

\* C13 witness: the annotator with the destinations C (no sampler) and B has
\* found a trigger in channel A, and the array of channel B carries its
\* annotation.
C13_Witness ==
    /\ Updated
    /\ ~call.raised
    /\ "C" \notin DOMAIN call.snapshot
    /\ "A" \in DictKeys(annotators)
    /\ DictGet(annotators, "A").annotated_handles = <<"C", "B">>
    /\ \E e \in call.attached : e.dest = "B" /\ e.annotation = "a2" /\ e.id = cycle
    /\ DictGet(waveform_generators, "B").current_rt_sample_array[1].annotations = <<"a2">>

\* C14: a call that replaces the generator of a channel that already has a
\* sampler (register_waveform_generator, through set_waveform_generator)
\* leaves last_timestamp, the activation state and the current array of the
\* sampler as they were; only its generator changes.
C14_ReplacementKeepsPacing ==
    [][\A handle \in DictKeys(waveform_generators) :
          LET before == DictGet(waveform_generators, handle)
              after == DictGet(waveform_generators', handle)
          IN  (cycle' = cycle /\ after.generator # before.generator)
                  => after = [before EXCEPT !.generator = after.generator]
      ]_vars

\* C14 witness: channel A holds an array with samples of period 1 and a
\* last_timestamp, it is not ON, and its generator is now one of period 2.
C14_Witness ==
    /\ "A" \in DictKeys(waveform_generators)
    /\ LET wf_generator == DictGet(waveform_generators, "A")
       IN  /\ wf_generator.generator.sampleperiod = 2
           /\ wf_generator.last_timestamp # None
           /\ ~is_active(wf_generator)
           /\ wf_generator.current_rt_sample_array # None
           /\ wf_generator.current_rt_sample_array[1].sample_period = 1
           /\ wf_generator.current_rt_sample_array[1].samples # <<>>

\* C20: an annotator evaluates an array of its source channel in at most one
\* update, the one that made the array: every array scanned in an update is
\* of this cycle and of a channel that is ON, so a channel that is not ON
\* gives no trigger timestamps and no timestamp is found, or attached, again
\* in a later cycle.
C20_NoBatchScannedTwice ==
    Updated =>
        /\ \A e \in call.scanned : e.id = cycle /\ e.source \in call.active
        /\ call.attached # {} => \E e \in call.scanned : e.source \in call.active

=============================================================================
